---- MODULE Spec2Model ----
(***************************************************************************)
(* Model of functions/main.py: the Cloud Function handleOAuthCallback,     *)
(* which exchanges an OAuth authorization code (with its PKCE verifier)    *)
(* for tokens, verifies the identity token, upserts the user profile in    *)
(* Firestore and mints a Firebase custom token.                            *)
(*                                                                         *)
(* Python values are tagged records: None, Bool, Num, Str (a string is a   *)
(* sequence of symbols), Arr, Obj (a dict: a function from keys to         *)
(* values) and Jwt (the identity token string, described by what the       *)
(* verifier will find in it).  Each invocation of the handler is a         *)
(* process whose pc is the stage it is about to run.                       *)
(***************************************************************************)
EXTENDS Integers, Sequences, FiniteSets, TLC

\* ------------------------------------------------------------------ bounds

\* Longest subject claim (in symbols) an identity token carries.
MaxSubLen == 3

\* Largest number of defects one identity token carries.
MaxDefects == 1

\* The invocations of the handler, one per incoming request, named in the
\* order the requests arrive.
Invocations == {"r1", "r2"}
Earlier(g, h) == g = "r1" /\ h = "r2"

\* Symbols subjects are written with; "|" is the provider-prefix separator.
Alphabet == {"a", "b", "|"}

\* Versions of a profile value the provider may assert.
Versions == {"v1", "v2"}

\* ------------------------------------------------------------ Python values

None == [t |-> "none"]
Bool(b) == [t |-> "bool", b |-> b]
Num(n) == [t |-> "num", n |-> n]
Str(s) == [t |-> "str", s |-> s]
Arr(n) == [t |-> "arr", len |-> n]
Obj(d) == [t |-> "obj", d |-> d]
Jwt(defects, claims) == [t |-> "jwt", defects |-> defects, claims |-> claims]

EmptyDict == [k \in {} |-> None]

\* bool(v): Python truthiness, as used by `not x` and `all([...])`.
Truthy(v) ==
    CASE v.t = "none" -> FALSE
      [] v.t = "bool" -> v.b
      [] v.t = "num" -> v.n # 0
      [] v.t = "str" -> Len(v.s) > 0
      [] v.t = "arr" -> v.len > 0
      [] v.t = "obj" -> DOMAIN v.d # {}
      [] v.t = "jwt" -> TRUE

\* d.get(k) on a dict.
DictGet(d, k) == IF k \in DOMAIN d THEN d[k] ELSE None

\* {**a, **b}: the entries of b over those of a.
DictUpdate(a, b) ==
    [k \in DOMAIN a \cup DOMAIN b |-> IF k \in DOMAIN b THEN b[k] ELSE a[k]]

\* ------------------------------------------------------------ exceptions

HTTPError(status) == [cls |-> "requests.HTTPError", msg |-> <<status>>]
ConnectionError == [cls |-> "requests.ConnectionError", msg |-> <<"connection refused">>]
Timeout == [cls |-> "requests.Timeout", msg |-> <<"timed out">>]
JSONDecodeError == [cls |-> "requests.JSONDecodeError", msg |-> <<"not JSON">>]
AttributeError == [cls |-> "AttributeError", msg |-> <<"no attribute get">>]
ValueError == [cls |-> "ValueError", msg |-> <<"ID token missing 'sub' claim">>]
StoreError == [cls |-> "google.api_core.GoogleAPICallError", msg |-> <<"store unavailable">>]
SignError == [cls |-> "firebase_admin.exceptions.FirebaseError", msg |-> <<"signing failed">>]

\* str(e) of the exceptions verify_id_token raises: each class of failure
\* has a text of its own.
JwtMessage(cls) ==
    CASE cls = "jwt.DecodeError" -> "Not enough segments"
      [] cls = "jwt.InvalidSignatureError" -> "Signature verification failed"
      [] cls = "jwt.ExpiredSignatureError" -> "Signature has expired"
      [] cls = "jwt.ImmatureSignatureError" -> "The token is not yet valid (nbf)"
      [] cls = "jwt.InvalidAudienceError" -> "Audience doesn't match"
      [] cls = "jwt.InvalidIssuerError" -> "Invalid issuer"
      [] cls = "jwt.InvalidAlgorithmError" -> "The specified alg value is not allowed"
      [] cls = "jwt.PyJWKClientError" -> "Unable to find a signing key that matches"
      [] cls = "jwt.PyJWKClientConnectionError" -> "Fail to fetch data from the url"

JwtError(cls) == [cls |-> cls, msg |-> <<JwtMessage(cls)>>]

\* The subclasses of jwt.InvalidTokenError that verify_id_token can raise.
\* jwt.PyJWKClientError (and its subclass PyJWKClientConnectionError) derives
\* from jwt.PyJWTError directly and is not among them.
InvalidTokenErrorClasses ==
    {"jwt.DecodeError", "jwt.InvalidSignatureError", "jwt.ExpiredSignatureError",
     "jwt.ImmatureSignatureError", "jwt.InvalidAudienceError",
     "jwt.InvalidIssuerError", "jwt.InvalidAlgorithmError"}

\* ------------------------------------------------------------------ inputs

RECURSIVE SeqsUpTo(_, _)
SeqsUpTo(S, n) ==
    IF n = 0 THEN {<<>>}
    ELSE LET shorter == SeqsUpTo(S, n - 1)
         IN shorter \cup {Append(s, c) : s \in {x \in shorter : Len(x) = n - 1}, c \in S}

Subjects == SeqsUpTo(Alphabet, MaxSubLen)

\* The profile claims create_or_update_user copies besides 'sub'.
ProfileKeys == {"email", "name", "given_name", "family_name"}

\* The name of the optional custom claim the provider asserts.
CustomKey == "national_id"

\* The subject the provider asserts together with every shape of profile.
ProfiledSubjects == {<<"b", "|", "a">>}

SubPart(s) == "sub" :> Str(s)
ProfilePart(ks, v) == [k \in ks |-> Str(<<k, v>>)]
CustomParts(v) == {EmptyDict, CustomKey :> None, CustomKey :> Str(<<CustomKey, v>>)}

\* The payloads of the identity tokens the provider issues: every subject
\* up to MaxSubLen (and no subject at all) with a plain profile, and the
\* profiled subjects with every subset of the profile claims, in every
\* version, with and without the custom claim.
ClaimSets ==
    {EmptyDict, ProfilePart({"email"}, "v1")}
    \cup {DictUpdate(SubPart(s), ProfilePart({"email"}, "v1")) : s \in Subjects}
    \cup UNION {{DictUpdate(DictUpdate(SubPart(s), ProfilePart(ks, v)), c) :
                    s \in ProfiledSubjects, ks \in SUBSET ProfileKeys,
                    c \in CustomParts(v)} : v \in Versions}

\* What verification can find wrong with an identity token.
Defects == {"malformed", "unknown_kid", "alg_not_rs256", "bad_signature",
            "not_yet_valid", "expired", "wrong_issuer", "wrong_audience"}

\* The identity tokens a token response may carry: sound ones with any
\* payload, and defective ones, which name a subject all the same.
IdTokens ==
    {Jwt({}, c) : c \in ClaimSets}
    \cup {Jwt(ds, SubPart(<<"a">>)) :
             ds \in {x \in SUBSET Defects : x # {} /\ Cardinality(x) <= MaxDefects}}

\* The JSON objects the token endpoint answers a successful exchange with.
TokenResponses ==
    {EmptyDict, "access_token" :> Str(<<"at">>), "id_token" :> None, "id_token" :> Str(<<>>)}
    \cup {"id_token" :> t : t \in IdTokens}

\* What requests.post(...), raise_for_status() and response.json() end in.
ExchangeOutcomes ==
    {[raised |-> TRUE, exc |-> e] :
        e \in {HTTPError("400 Client Error"), HTTPError("503 Server Error"), ConnectionError, Timeout, JSONDecodeError}}
    \cup {[raised |-> FALSE, value |-> d] : d \in TokenResponses}

\* The values req.get_json(silent=True) returns: None for a missing or
\* unparseable body (and for the JSON value null), else the parsed value.
\* The optional 'redirectUri' only selects the redirect_uri form field of
\* the POST (line 73) and is left out of the bodies.
FieldValues == {Str(<<>>), Str(<<"x">>)}
RequestObjects ==
    {DictUpdate(c, v) :
        c \in {EmptyDict} \cup {"code" :> x : x \in FieldValues \cup {None}},
        v \in {EmptyDict} \cup {"codeVerifier" :> x : x \in FieldValues \cup {None}}}
RequestBodies ==
    {None, Bool(FALSE), Bool(TRUE), Num(0), Num(5), Str(<<>>), Str(<<"x">>), Arr(0), Arr(1)}
    \cup {Obj(d) : d \in RequestObjects}

\* The process environment read at lines 48-52.
ConfigValues == {Str(<<>>), Str(<<"set">>)}
Configs ==
    [OAUTH_ISSUER_URL : ConfigValues, OAUTH_CLIENT_ID : ConfigValues,
     OAUTH_CLIENT_SECRET : ConfigValues, OAUTH_REDIRECT_URI : ConfigValues,
     CUSTOM_CLAIM_NAME : {None, Str(<<>>), Str(<<CustomKey>>)}]

\* --------------------------------------------------------- pure functions

\* s.split('|'): the segments of s between separators.
RECURSIVE Split(_, _)
Split(s, sep) ==
    IF \A i \in 1..Len(s) : s[i] # sep THEN <<s>>
    ELSE LET i == CHOOSE j \in 1..Len(s) :
                      s[j] = sep /\ \A k \in 1..(j - 1) : s[k] # sep
         IN <<SubSeq(s, 1, i - 1)>> \o Split(SubSeq(s, i + 1, Len(s)), sep)

\* Mutant: the first segment (the provider prefix) is kept, not the last.
DeriveUid_FirstSegment(subject) ==
    IF \E i \in 1..Len(subject) : subject[i] = "|"
    THEN Split(subject, "|")[1]
    ELSE subject

\* Mutant: the provider prefix is not removed.
DeriveUid_NoStrip(subject) == subject

\* auth_uid = subject.split('|')[-1] if '|' in subject else subject
DeriveUid(subject) ==
    IF \E i \in 1..Len(subject) : subject[i] = "|"
    THEN LET parts == Split(subject, "|") IN parts[Len(parts)]
    ELSE subject

\* `CUSTOM_CLAIM_NAME and CUSTOM_CLAIM_NAME in claims`
HasCustomClaim(cfg, claims) ==
    /\ Truthy(cfg.CUSTOM_CLAIM_NAME)
    /\ cfg.CUSTOM_CLAIM_NAME.s[1] \in DOMAIN claims

\* profile_data as built from the claims, before the None values are removed.
ProfileData(cfg, claims, subject, ts) ==
    LET base == [k \in {"sub"} \cup ProfileKeys \cup {"updated_at"} |->
                    CASE k = "sub" -> Str(subject)
                      [] k = "updated_at" -> ts
                      [] OTHER -> DictGet(claims, k)]
    IN IF HasCustomClaim(cfg, claims)
       THEN LET name == cfg.CUSTOM_CLAIM_NAME.s[1]
            IN DictUpdate(base, name :> claims[name])
       ELSE base

\* {k: v for k, v in profile_data.items() if v is not None}
DropNone(d) == [k \in {j \in DOMAIN d : d[j] # None} |-> d[k]]

\* Mutant: an existing document is left as it is (create-if-missing).
MergeSet_CreateOnly(docs, id, data) ==
    IF id \in DOMAIN docs
    THEN docs
    ELSE [i \in DOMAIN docs \cup {id} |-> IF i = id THEN data ELSE docs[i]]

\* Mutant: set(profile_data) without merge=True replaces the document.
MergeSet_Replace(docs, id, data) ==
    [i \in DOMAIN docs \cup {id} |-> IF i = id THEN data ELSE docs[i]]

\* user_ref.set(profile_data, merge=True) on the collection: the document
\* is created when missing, else the given fields are written over it.
MergeSet(docs, id, data) ==
    IF id \in DOMAIN docs
    THEN [docs EXCEPT ![id] = DictUpdate(docs[id], data)]
    ELSE [i \in DOMAIN docs \cup {id} |-> IF i = id THEN data ELSE docs[i]]

\* developer_claims of create_custom_token.
DeveloperClaims(cfg, claims) ==
    IF HasCustomClaim(cfg, claims)
    THEN LET name == cfg.CUSTOM_CLAIM_NAME.s[1] IN name :> claims[name]
    ELSE EmptyDict

\* The token auth.create_custom_token(uid, developer_claims=...) signs.
CustomToken(cfg, id, claims) ==
    LET dc == DeveloperClaims(cfg, claims)
    IN [t |-> "custom_token", uid |-> id,
        claims |-> IF Truthy(Obj(dc)) THEN Obj(dc) ELSE None]

\* A string that does not parse as a JWT (header, payload, signature).
Malformed(tok) == tok.t # "jwt" \/ "malformed" \in tok.defects

\* Mutant: jwt.decode without algorithms=['RS256'], so that the algorithm
\* the token header asserts is accepted.
VerifyIdToken_AnyAlgorithm(tok, jwks) ==
    LET fail(cls) == [raised |-> TRUE, exc |-> JwtError(cls)]
    IN CASE Malformed(tok) -> fail("jwt.DecodeError")
         [] ~ Malformed(tok) /\ jwks = "unreachable" ->
                fail("jwt.PyJWKClientConnectionError")
         [] OTHER ->
            IF "unknown_kid" \in tok.defects THEN fail("jwt.PyJWKClientError")
            ELSE IF "bad_signature" \in tok.defects THEN fail("jwt.InvalidSignatureError")
            ELSE IF "not_yet_valid" \in tok.defects THEN fail("jwt.ImmatureSignatureError")
            ELSE IF "expired" \in tok.defects THEN fail("jwt.ExpiredSignatureError")
            ELSE IF "wrong_issuer" \in tok.defects THEN fail("jwt.InvalidIssuerError")
            ELSE IF "wrong_audience" \in tok.defects THEN fail("jwt.InvalidAudienceError")
            ELSE [raised |-> FALSE, value |-> tok.claims]

\* verify_id_token: get_signing_key_from_jwt reads the token header, fetches
\* the JWKS and looks the key id up; jwt.decode then checks the algorithm,
\* the signature and the registered claims.  `jwks` says whether the JWKS
\* endpoint answered.
VerifyIdToken(tok, jwks) ==
    LET fail(cls) == [raised |-> TRUE, exc |-> JwtError(cls)]
    IN CASE Malformed(tok) -> fail("jwt.DecodeError")
         [] ~ Malformed(tok) /\ jwks = "unreachable" ->
                fail("jwt.PyJWKClientConnectionError")
         [] OTHER ->
            IF "unknown_kid" \in tok.defects THEN fail("jwt.PyJWKClientError")
            ELSE IF "alg_not_rs256" \in tok.defects THEN fail("jwt.InvalidAlgorithmError")
            ELSE IF "bad_signature" \in tok.defects THEN fail("jwt.InvalidSignatureError")
            ELSE IF "not_yet_valid" \in tok.defects THEN fail("jwt.ImmatureSignatureError")
            ELSE IF "expired" \in tok.defects THEN fail("jwt.ExpiredSignatureError")
            ELSE IF "wrong_issuer" \in tok.defects THEN fail("jwt.InvalidIssuerError")
            ELSE IF "wrong_audience" \in tok.defects THEN fail("jwt.InvalidAudienceError")
            ELSE [raised |-> FALSE, value |-> tok.claims]

\* ------------------------------------------------------------- responses

NoResponse == [status |-> 0]

ErrorResponse(kind, message, status) ==
    [status |-> status, error |-> kind, message |-> message]

SuccessResponse(token, id) ==
    [status |-> 200, customToken |-> token, uid |-> id]

\* Mutant: without the last clause (`except Exception`), an exception of
\* any other class leaves the handler and no response is built.
OnException_NoCatchAll(e) ==
    IF e.cls = "requests.HTTPError"
    THEN ErrorResponse("token_exchange_failed",
                       <<"Failed to exchange authorization code: ">> \o e.msg, 500)
    ELSE IF e.cls \in InvalidTokenErrorClasses
    THEN ErrorResponse("invalid_token", <<"ID token verification failed: ">> \o e.msg, 401)
    ELSE [status |-> 0, escaped |-> e.cls]

\* The except clauses of handleOAuthCallback, in order.
OnException(e) ==
    IF e.cls = "requests.HTTPError"
    THEN ErrorResponse("token_exchange_failed",
                       <<"Failed to exchange authorization code: ">> \o e.msg, 500)
    ELSE IF e.cls \in InvalidTokenErrorClasses
    THEN ErrorResponse("invalid_token", <<"ID token verification failed: ">> \o e.msg, 401)
    ELSE ErrorResponse("internal_error", <<"An unexpected error occurred: ">> \o e.msg, 500)

\* ------------------------------------------------------------------ state

VARIABLES
    config,          \* the module-level configuration (lines 48-52)
    store,           \* Firestore collection 'users': document id -> fields
    now,             \* the store's clock, read by SERVER_TIMESTAMP
    pc,              \* per invocation: the stage about to run
    request_json,    \* per invocation: req.get_json(silent=True)
    token_response,  \* per invocation: what exchange_code_for_tokens returned
    id_token,        \* per invocation: token_response.get('id_token')
    decoded_claims,  \* per invocation: the verified claims
    uid,             \* per invocation: what create_or_update_user returned
    custom_token,    \* per invocation: what create_custom_token returned
    response,        \* per invocation: the https_fn.Response returned
    calls            \* per invocation: outbound operations performed so far

vars == <<config, store, now, pc, request_json, token_response, id_token,
          decoded_claims, uid, custom_token, response, calls>>

NoCalls == [post |-> 0, jwks |-> 0, store |-> 0, sign |-> 0]

EmptyStore == [i \in {} |-> EmptyDict]

Init ==
    /\ config \in Configs
    /\ store = EmptyStore
    /\ now = 1
    /\ pc = [h \in Invocations |-> "Idle"]
    /\ request_json = [h \in Invocations |-> None]
    /\ token_response = [h \in Invocations |-> None]
    /\ id_token = [h \in Invocations |-> None]
    /\ decoded_claims = [h \in Invocations |-> None]
    /\ uid = [h \in Invocations |-> None]
    /\ custom_token = [h \in Invocations |-> None]
    /\ response = [h \in Invocations |-> NoResponse]
    /\ calls = [h \in Invocations |-> NoCalls]

\* Mutant: the redirect URI is left out of the check.
ConfigIncomplete_NoRedirectUri(cfg) ==
    ~ (/\ Truthy(cfg.OAUTH_ISSUER_URL)
       /\ Truthy(cfg.OAUTH_CLIENT_ID)
       /\ Truthy(cfg.OAUTH_CLIENT_SECRET))

\* `not all([OAUTH_ISSUER_URL, OAUTH_CLIENT_ID, OAUTH_CLIENT_SECRET, OAUTH_REDIRECT_URI])`
ConfigIncomplete(cfg) ==
    ~ (/\ Truthy(cfg.OAUTH_ISSUER_URL)
       /\ Truthy(cfg.OAUTH_CLIENT_ID)
       /\ Truthy(cfg.OAUTH_CLIENT_SECRET)
       /\ Truthy(cfg.OAUTH_REDIRECT_URI))

\* Mutant: a first failure of the Exchange stage is not answered; the
\* stage is run again.
Fail_RetryExchange(h, resp) ==
    IF pc[h] = "Exchange" /\ calls[h].post = 0
    THEN pc' = pc /\ response' = response
    ELSE /\ pc' = [pc EXCEPT ![h] = "Error"]
         /\ response' = [response EXCEPT ![h] = resp]

\* A return statement with an error response, or an except clause: the
\* invocation ends in Error with that response.
Fail(h, resp) ==
    /\ pc' = [pc EXCEPT ![h] = "Error"]
    /\ response' = [response EXCEPT ![h] = resp]

\* The platform hands a request to the function.  The instance serves one
\* request at a time.
Receive(h, body) ==
    /\ pc[h] = "Idle"
    /\ \A g \in Invocations \ {h} :
          pc[g] = IF Earlier(g, h) THEN "Closed" ELSE "Idle"
    /\ pc' = [pc EXCEPT ![h] = "ConfigCheck"]
    /\ request_json' = [request_json EXCEPT ![h] = body]
    /\ UNCHANGED <<config, store, now, token_response, id_token, decoded_claims,
                   uid, custom_token, response, calls>>

\* Lines 231-241.
ConfigCheck(h) ==
    /\ pc[h] = "ConfigCheck"
    /\ IF ConfigIncomplete(config)
       THEN Fail(h, ErrorResponse("configuration_error",
                 <<"Cloud Function not properly configured. Check environment variables.">>,
                 500))
       ELSE pc' = [pc EXCEPT ![h] = "ParseRequest"] /\ UNCHANGED response
    /\ UNCHANGED <<config, store, now, request_json, token_response, id_token,
                   decoded_claims, uid, custom_token, calls>>

\* Mutant: only the code is required.
MissingParameters_OnlyCode(code, code_verifier) == ~ Truthy(code)

\* `not code or not code_verifier`
MissingParameters(code, code_verifier) == ~ Truthy(code) \/ ~ Truthy(code_verifier)

\* Mutant: only an absent id_token is missing; an empty one is not.
MissingIdToken_OnlyNone(tok) == tok = None

\* `not id_token`
MissingIdToken(tok) == ~ Truthy(tok)

\* Lines 243-264.  request_json.get on a value that is no dict raises
\* AttributeError, which the last except clause answers.
ParseRequest(h) ==
    /\ pc[h] = "ParseRequest"
    /\ LET body == request_json[h]
       IN IF ~ Truthy(body)
          THEN Fail(h, ErrorResponse("invalid_request", <<"Request body must be JSON">>, 400))
          ELSE IF body.t # "obj"
          THEN Fail(h, OnException(AttributeError))
          ELSE IF MissingParameters(DictGet(body.d, "code"), DictGet(body.d, "codeVerifier"))
          THEN Fail(h, ErrorResponse("invalid_request", <<"Missing code or codeVerifier">>, 400))
          ELSE pc' = [pc EXCEPT ![h] = "Exchange"] /\ UNCHANGED response
    /\ UNCHANGED <<config, store, now, request_json, token_response, id_token,
                   decoded_claims, uid, custom_token, calls>>

\* Lines 268-278 with exchange_code_for_tokens (lines 70-90): one POST to
\* the token endpoint, ending as `out` says.
Exchange(h, out) ==
    /\ pc[h] = "Exchange"
    /\ calls' = [calls EXCEPT ![h].post = @ + 1]
    /\ IF out.raised
       THEN Fail(h, OnException(out.exc)) /\ UNCHANGED <<token_response, id_token>>
       ELSE LET tok == DictGet(out.value, "id_token")
            IN /\ token_response' = [token_response EXCEPT ![h] = Obj(out.value)]
               /\ id_token' = [id_token EXCEPT ![h] = tok]
               /\ IF MissingIdToken(tok)
                  THEN Fail(h, ErrorResponse("token_error", <<"No ID token received">>, 500))
                  ELSE pc' = [pc EXCEPT ![h] = "Verify"] /\ UNCHANGED response
    /\ UNCHANGED <<config, store, now, request_json, decoded_claims, uid, custom_token>>

\* Line 281 with verify_id_token (lines 108-125).  The JWKS is fetched
\* once the token header has been read.
Verify(h, jwks) ==
    /\ pc[h] = "Verify"
    /\ LET res == VerifyIdToken(id_token[h], jwks)
       IN /\ calls' = [calls EXCEPT ![h].jwks =
                          IF Malformed(id_token[h]) THEN @ ELSE @ + 1]
          /\ IF res.raised
             THEN Fail(h, OnException(res.exc)) /\ UNCHANGED decoded_claims
             ELSE /\ decoded_claims' = [decoded_claims EXCEPT ![h] = Obj(res.value)]
                  /\ pc' = [pc EXCEPT ![h] = "Sync"]
                  /\ UNCHANGED response
    /\ UNCHANGED <<config, store, now, request_json, token_response, id_token,
                   uid, custom_token>>

\* Mutant: only a missing subject is refused; an empty one is not.
MissingSubject_OnlyNone(subject) == subject = None

\* `not subject`
MissingSubject(subject) == ~ Truthy(subject)

\* Line 284 with create_or_update_user (lines 138-172).  `write` says
\* whether the store accepted the set.
Sync(h, write) ==
    /\ pc[h] = "Sync"
    /\ LET claims == decoded_claims[h].d
           subject == DictGet(claims, "sub")
       IN IF MissingSubject(subject)
          THEN /\ Fail(h, OnException(ValueError))
               /\ UNCHANGED <<store, now, uid, calls>>
          ELSE LET auth_uid == DeriveUid(subject.s)
                   profile_data == DropNone(ProfileData(config, claims, subject.s, Num(now)))
               IN /\ calls' = [calls EXCEPT ![h].store = @ + 1]
                  /\ IF write = "ok"
                     THEN /\ store' = MergeSet(store, auth_uid, profile_data)
                          /\ now' = now + 1
                          /\ uid' = [uid EXCEPT ![h] = Str(auth_uid)]
                          /\ pc' = [pc EXCEPT ![h] = "Mint"]
                          /\ UNCHANGED response
                     ELSE /\ Fail(h, OnException(StoreError))
                          /\ UNCHANGED <<store, now, uid>>
    /\ UNCHANGED <<config, request_json, token_response, id_token, decoded_claims,
                   custom_token>>

\* Mutant: a failed Mint deletes the record Sync has written.
StoreAfterMintFailure_Rollback(docs, id) == [i \in DOMAIN docs \ {id} |-> docs[i]]

\* The store once create_custom_token has raised: the except clauses build
\* a response and touch nothing else, so the record of `id` stays.
StoreAfterMintFailure(docs, id) == docs

\* What auth.create_custom_token raises for the uid it is given: a uid
\* must be a string of 1 to 128 characters.
UidValueError ==
    [cls |-> "ValueError", msg |-> <<"uid must be a string between 1 and 128 characters.">>]

\* Line 287 with create_custom_token (lines 186-204).  `sign` says whether
\* the signing capability answered; an empty uid is refused before that.
Mint(h, sign) ==
    /\ pc[h] = "Mint"
    /\ calls' = [calls EXCEPT ![h].sign = @ + 1]
    /\ IF sign = "ok" /\ Len(uid[h].s) > 0
       THEN /\ custom_token' = [custom_token EXCEPT ![h] =
                                   CustomToken(config, uid[h], decoded_claims[h].d)]
            /\ pc' = [pc EXCEPT ![h] = "Respond"]
            /\ UNCHANGED <<response, store>>
       ELSE /\ Fail(h, OnException(IF Len(uid[h].s) = 0 THEN UidValueError ELSE SignError))
            /\ store' = StoreAfterMintFailure(store, uid[h].s)
            /\ UNCHANGED custom_token
    /\ UNCHANGED <<config, now, request_json, token_response, id_token,
                   decoded_claims, uid>>

\* Lines 290-297.
Respond(h) ==
    /\ pc[h] = "Respond"
    /\ pc' = [pc EXCEPT ![h] = "Done"]
    /\ response' = [response EXCEPT ![h] = SuccessResponse(custom_token[h], uid[h])]
    /\ UNCHANGED <<config, store, now, request_json, token_response, id_token,
                   decoded_claims, uid, custom_token, calls>>

\* The response has been sent and the invocation's frame is gone.
Return(h) ==
    /\ pc[h] \in {"Done", "Error"}
    /\ pc' = [pc EXCEPT ![h] = "Closed"]
    /\ request_json' = [request_json EXCEPT ![h] = None]
    /\ token_response' = [token_response EXCEPT ![h] = None]
    /\ id_token' = [id_token EXCEPT ![h] = None]
    /\ decoded_claims' = [decoded_claims EXCEPT ![h] = None]
    /\ uid' = [uid EXCEPT ![h] = None]
    /\ custom_token' = [custom_token EXCEPT ![h] = None]
    /\ response' = [response EXCEPT ![h] = NoResponse]
    /\ calls' = [calls EXCEPT ![h] = NoCalls]
    /\ UNCHANGED <<config, store, now>>

Next ==
    \E h \in Invocations :
        \/ \E body \in RequestBodies : Receive(h, body)
        \/ ConfigCheck(h)
        \/ ParseRequest(h)
        \/ \E out \in ExchangeOutcomes : Exchange(h, out)
        \/ \E jwks \in {"ok", "unreachable"} : Verify(h, jwks)
        \/ \E write \in {"ok", "error"} : Sync(h, write)
        \/ \E sign \in {"ok", "error"} : Mint(h, sign)
        \/ Respond(h)
        \/ Return(h)

Spec == Init /\ [][Next]_vars

\* ---------------------------------------------------- concurrent requests

\* Instances of the function serve requests at the same time; they share
\* the store and nothing else.  The requests are complete ones (or have no
\* body), for one subject with every subset of the email and name claims in
\* every version, for a second subject, or with a token that fails one
\* verification check.
ConcurrentBodies ==
    {None, Obj(DictUpdate("code" :> Str(<<"x">>), "codeVerifier" :> Str(<<"x">>)))}

ConcurrentClaimSets ==
    {DictUpdate(SubPart(s), ProfilePart(ks, v)) :
        s \in ProfiledSubjects, ks \in SUBSET {"email", "name"}, v \in Versions}
    \cup {DictUpdate(SubPart(<<"b">>), ProfilePart({"email"}, "v1"))}

ConcurrentDefects == {"bad_signature", "expired", "wrong_audience"}

ConcurrentOutcomes ==
    {[raised |-> TRUE, exc |-> HTTPError("503 Server Error")]}
    \cup {[raised |-> FALSE, value |-> "id_token" :> Jwt({}, c)] : c \in ConcurrentClaimSets}
    \cup {[raised |-> FALSE, value |-> "id_token" :> Jwt({d}, SubPart(<<"a">>))] :
             d \in ConcurrentDefects}

\* The platform hands a request to an instance, whatever the other
\* requests are doing.
Arrive(h, body) ==
    /\ pc[h] = "Idle"
    /\ pc' = [pc EXCEPT ![h] = "ConfigCheck"]
    /\ request_json' = [request_json EXCEPT ![h] = body]
    /\ UNCHANGED <<config, store, now, token_response, id_token, decoded_claims,
                   uid, custom_token, response, calls>>

NextConcurrent ==
    \E h \in Invocations :
        \/ \E body \in ConcurrentBodies : Arrive(h, body)
        \/ ConfigCheck(h)
        \/ ParseRequest(h)
        \/ \E out \in ConcurrentOutcomes : Exchange(h, out)
        \/ \E jwks \in {"ok", "unreachable"} : Verify(h, jwks)
        \/ \E write \in {"ok", "error"} : Sync(h, write)
        \/ \E sign \in {"ok", "error"} : Mint(h, sign)
        \/ Respond(h)
        \/ Return(h)

SpecConcurrent == Init /\ [][NextConcurrent]_vars

\* ------------------------------------------------------------- progress

\* What the code guarantees about progress.  The handler's own steps run
\* to their end.  requests.post is given timeout=10 (line 87): a token
\* endpoint that does not answer ends the Exchange stage with
\* requests.Timeout.  PyJWKClient(jwks_url) (line 109) and
\* user_ref.set(profile_data, merge=True) (line 168) are given no timeout:
\* how long the Verify and Sync stages wait is left to the collaborator,
\* and nothing in the code ends the wait.
Progress(h) ==
    /\ WF_vars(ConfigCheck(h))
    /\ WF_vars(ParseRequest(h))
    /\ WF_vars(\E out \in ConcurrentOutcomes : Exchange(h, out))
    /\ WF_vars(\E sign \in {"ok", "error"} : Mint(h, sign))
    /\ WF_vars(Respond(h))

SpecLive == SpecConcurrent /\ \A h \in Invocations : Progress(h)

\* ------------------------------------------------------------------ claims

RequiredSettings ==
    {"OAUTH_ISSUER_URL", "OAUTH_CLIENT_ID", "OAUTH_CLIENT_SECRET", "OAUTH_REDIRECT_URI"}

AnyRequiredEmpty == \E k \in RequiredSettings : config[k] = Str(<<>>)

IsError(r, kind, status) == r.status = status /\ r.error = kind

Ended(h) == pc[h] \in {"Done", "Error"}

NoOutboundCall(h) == calls[h] = NoCalls

\* Field k of the JSON object d is missing, null or the empty string.
LacksNonEmpty(d, k) == k \notin DOMAIN d \/ d[k] \in {None, Str(<<>>)}

IncompleteObject(v) ==
    v.t = "obj" /\ (LacksNonEmpty(v.d, "code") \/ LacksNonEmpty(v.d, "codeVerifier"))

\* C1: when one of the four required settings is empty, a request can only
\* end in Error with 500/configuration_error, it never gets past
\* ConfigCheck, and it performs no outbound operation (no POST, no JWKS
\* fetch, no store write, no signing), whatever its body is.
C1_ConfigurationError ==
    \A h \in Invocations :
        AnyRequiredEmpty =>
            /\ pc[h] \in {"Idle", "ConfigCheck", "Error", "Closed"}
            /\ pc[h] = "Error" => IsError(response[h], "configuration_error", 500)
            /\ NoOutboundCall(h)
            /\ store = EmptyStore

\* C1 witness: only the redirect URI is empty, and a request with a
\* complete body has been answered.
C1_Witness ==
    /\ \A k \in RequiredSettings :
          (config[k] = Str(<<>>)) <=> (k = "OAUTH_REDIRECT_URI")
    /\ \E h \in Invocations :
          /\ pc[h] = "Error"
          /\ request_json[h].t = "obj"
          /\ ~ IncompleteObject(request_json[h])
          /\ response[h].status = 500

\* C2: with complete configuration, a request whose JSON object lacks a
\* non-empty code or a non-empty codeVerifier ends, as soon as it is parsed,
\* in Error with 400/invalid_request, and performs no outbound operation.
C2_MissingParameter ==
    \A h \in Invocations :
        (/\ ~ AnyRequiredEmpty
         /\ IncompleteObject(request_json[h])
         /\ pc[h] \notin {"ConfigCheck", "ParseRequest"})
        => /\ pc[h] = "Error"
           /\ IsError(response[h], "invalid_request", 400)
           /\ NoOutboundCall(h)

\* C2 witness: a request with a code and no codeVerifier has been refused.
C2_Witness ==
    \E h \in Invocations :
        /\ pc[h] = "Error"
        /\ request_json[h].t = "obj"
        /\ ~ LacksNonEmpty(request_json[h].d, "code")
        /\ "codeVerifier" \notin DOMAIN request_json[h].d
        /\ IsError(response[h], "invalid_request", 400)

\* C3: with complete configuration, a request whose body is missing or
\* unparseable (None), or a JSON value that is no object with a non-empty
\* code and a non-empty codeVerifier, ends with 400/invalid_request.
C3_ParseRejects ==
    \A h \in Invocations :
        (/\ ~ AnyRequiredEmpty
         /\ Ended(h)
         /\ request_json[h].t # "obj" \/ IncompleteObject(request_json[h]))
        => IsError(response[h], "invalid_request", 400)

\* The identity token of invocation h is a JWT in which verification finds
\* (or would find) a defect.
DefectiveToken(h) == id_token[h].t = "jwt" /\ id_token[h].defects # {}

\* The identity token of invocation h has passed verification.
Verified(h) ==
    /\ id_token[h].t = "jwt"
    /\ id_token[h].defects = {}
    /\ calls[h].jwks = 1
    /\ decoded_claims[h] = Obj(id_token[h].claims)

\* C4: a request whose identity token has a defect (unknown key id, bad
\* signature, wrong audience, wrong issuer, expired, not yet valid,
\* malformed, algorithm other than RS256) ends with 401/invalid_token.
C4_VerifyFailureIs401 ==
    \A h \in Invocations :
        (pc[h] = "Error" /\ DefectiveToken(h))
        => IsError(response[h], "invalid_token", 401)

C5_OnlyAfterVerification(h) ==
    /\ (\/ calls[h].store > 0
        \/ calls[h].sign > 0
        \/ uid[h] # None
        \/ custom_token[h] # None
        \/ pc[h] \in {"Mint", "Respond", "Done"}) => Verified(h)
    /\ (\/ decoded_claims[h] = None
        \/ response[h].status = 401) => calls[h].store = 0 /\ calls[h].sign = 0

C5_StoreStep ==
    store' # store => \E h \in Invocations : pc[h] = "Sync" /\ Verified(h)

\* C5: the store is written and the signing capability is called only by a
\* request whose identity token has passed verification: as long as
\* verification has failed or not been reached (in particular in a 401
\* response) the request has written nothing and signed nothing, and every
\* step that changes the store is the Sync of a verified request.
C5_WriteAndMintOnlyVerified ==
    /\ [](\A h \in Invocations : C5_OnlyAfterVerification(h))
    /\ [][C5_StoreStep]_vars

\* C5 witness: a token for the wrong audience was answered 401 and the
\* store is still empty.
C5_Witness ==
    \E h \in Invocations :
        /\ IsError(response[h], "invalid_token", 401)
        /\ id_token[h].defects = {"wrong_audience"}
        /\ calls[h].store = 0
        /\ calls[h].sign = 0
        /\ store = EmptyStore

\* C6: a request whose token exchange failed (the POST was made and
\* exchange_code_for_tokens did not return) ends with
\* 500/token_exchange_failed.
C6_ExchangeFailure ==
    \A h \in Invocations :
        (pc[h] = "Error" /\ calls[h].post = 1 /\ token_response[h] = None)
        => IsError(response[h], "token_exchange_failed", 500)

SubjectOf(h) == decoded_claims[h].d["sub"].s

HasSubject(h) ==
    /\ decoded_claims[h] # None
    /\ "sub" \in DOMAIN decoded_claims[h].d
    /\ Len(SubjectOf(h)) > 0

\* The part of s after its last separator (all of s when it has none).
LocalId(s) ==
    LET seps == {i \in 1..Len(s) : s[i] = "|"}
        last == IF seps = {} THEN 0 ELSE CHOOSE i \in seps : \A j \in seps : j <= i
    IN SubSeq(s, last + 1, Len(s))

StoreFailed(h) == calls[h].store = 1 /\ uid[h] = None
SignFailed(h) == calls[h].sign = 1 /\ custom_token[h] = None

\* C8: a request whose token passed verification and names a subject ends
\* in Error only when the store write or the signing failed; otherwise it is
\* answered 200 with customToken and uid, where uid is the identifier
\* derived from the subject, the key of the record Sync has just written
\* for that subject, and the uid the credential was minted for.
C8_Success ==
    \A h \in Invocations :
        /\ (pc[h] = "Error" /\ Verified(h) /\ HasSubject(h))
           => (StoreFailed(h) \/ SignFailed(h))
        /\ pc[h] = "Done"
           => /\ Verified(h) /\ HasSubject(h)
              /\ response[h].status = 200
              /\ DOMAIN response[h] = {"status", "customToken", "uid"}
              /\ response[h].uid = Str(LocalId(SubjectOf(h)))
              /\ response[h].customToken.t = "custom_token"
              /\ response[h].customToken.uid = response[h].uid
              /\ response[h].uid.s \in DOMAIN store
              /\ store[response[h].uid.s]["sub"] = Str(SubjectOf(h))
              /\ store[response[h].uid.s]["updated_at"] = Num(now - 1)

\* C8 witness: subject "b|a" was answered 200 with uid "a".
C8_Witness ==
    \E h \in Invocations :
        /\ pc[h] = "Done"
        /\ SubjectOf(h) = <<"b", "|", "a">>
        /\ response[h].uid = Str(<<"a">>)

\* Identifier id is the one the subject s derives to: s itself when s has
\* no separator, and the local part l for every way of writing s as a
\* prefix, a separator and a local part l without separator.
DerivesTo(s, id) ==
    /\ (\A i \in 1..Len(s) : s[i] # "|") => id = s
    /\ \A i \in 1..Len(s) :
          (s[i] = "|" /\ \A j \in (i + 1)..Len(s) : s[j] # "|")
          => id = SubSeq(s, i + 1, Len(s))

\* C9: the identifier create_or_update_user returns is the local part of
\* a subject "<prefix>|<local-id>" and the subject itself when there is no
\* separator; it is a function of the subject: every record's key is the
\* identifier of the subject last stored in it, so the same subject never
\* lands in two records.
C9_DerivedIdentifier ==
    /\ \A h \in Invocations :
          uid[h] # None => DerivesTo(SubjectOf(h), uid[h].s)
    /\ \A d \in DOMAIN store : DerivesTo(store[d]["sub"].s, d)
    /\ \A d1, d2 \in DOMAIN store :
          store[d1]["sub"] = store[d2]["sub"] => d1 = d2

\* C9 witness: the second call for subject "b|a" has returned "a" again;
\* the only record is "a", written before by the same subject (only that
\* subject carries a name).
C9_Witness ==
    /\ pc["r2"] = "Mint"
    /\ SubjectOf("r2") = <<"b", "|", "a">>
    /\ uid["r2"] = Str(<<"a">>)
    /\ DOMAIN store = {<<"a">>}
    /\ "name" \in DOMAIN store[<<"a">>]
    /\ "name" \notin DOMAIN decoded_claims["r2"].d

\* The claim-derived fields of a user record besides 'sub'.
StoredKeys == ProfileKeys \cup {CustomKey}

\* The claim set c supplies field k: present, not null and, for the
\* custom claim, configured.
Supplied(c, k) ==
    /\ k \in DOMAIN c
    /\ c[k] # None
    /\ k = CustomKey => config.CUSTOM_CLAIM_NAME = Str(<<CustomKey>>)

WithoutTimestamp(doc) == [k \in DOMAIN doc \ {"updated_at"} |-> doc[k]]

\* A run with the claim set c has left doc as it is (timestamp aside).
CarriesClaims(doc, c) ==
    /\ doc["sub"] = c["sub"]
    /\ \A k \in StoredKeys : Supplied(c, k) => k \in DOMAIN doc /\ doc[k] = c[k]

C10_SyncStep(h) ==
    (pc[h] = "Sync" /\ pc'[h] = "Mint") =>
        LET c == decoded_claims[h].d
            u == uid'[h].s
        IN /\ DOMAIN store' = DOMAIN store \cup {u}
           /\ \A d \in DOMAIN store \ {u} : store'[d] = store[d]
           /\ DOMAIN store'[u] \subseteq StoredKeys \cup {"sub", "updated_at"}
           /\ store'[u]["sub"] = c["sub"]
           /\ \A k \in StoredKeys :
                 IF Supplied(c, k)
                 THEN k \in DOMAIN store'[u] /\ store'[u][k] = c[k]
                 ELSE IF u \in DOMAIN store /\ k \in DOMAIN store[u]
                 THEN k \in DOMAIN store'[u] /\ store'[u][k] = store[u][k]
                 ELSE k \notin DOMAIN store'[u]
           /\ (u \in DOMAIN store /\ CarriesClaims(store[u], c))
              => WithoutTimestamp(store'[u]) = WithoutTimestamp(store[u])

\* C10: every successful create_or_update_user is a merge-upsert of the
\* one record of the derived identifier: the record is created when
\* missing, no other record is touched or added, every field the claims
\* supply is overwritten, every field they leave out or null keeps the
\* value an earlier run stored, and a run with the claims the record already
\* carries changes nothing but the timestamp.
C10_MergeUpsert == [][\A h \in Invocations : C10_SyncStep(h)]_vars

\* C10 witness: the second run supplied email (v2) and no name; the record
\* has the new email and keeps the name (v1) of the first run.
C10_Witness ==
    /\ pc["r2"] = "Mint"
    /\ <<"a">> \in DOMAIN store
    /\ DOMAIN decoded_claims["r2"].d = {"sub", "email"}
    /\ decoded_claims["r2"].d["email"] = Str(<<"email", "v2">>)
    /\ {"email", "name"} \subseteq DOMAIN store[<<"a">>]
    /\ store[<<"a">>]["email"] = Str(<<"email", "v2">>)
    /\ store[<<"a">>]["name"] = Str(<<"name", "v1">>)
    /\ store[<<"a">>]["updated_at"] = Num(2)

\* The custom claim is in the user record of invocation h's identifier.
InRecord(h) ==
    /\ uid[h].s \in DOMAIN store
    /\ CustomKey \in DOMAIN store[uid[h].s]

\* The custom claim is in the claim bag of the credential minted for h.
InClaimBag(h) ==
    /\ custom_token[h].claims # None
    /\ CustomKey \in DOMAIN custom_token[h].claims.d

CustomClaimConfigured == config.CUSTOM_CLAIM_NAME = Str(<<CustomKey>>)

CustomClaimPresent(h) == CustomKey \in DOMAIN decoded_claims[h].d

\* C11: for a successful request that is the only one to have written the
\* store, the custom claim is in the user record and in the credential's
\* claim bag when its name is configured and the verified claims hold it
\* (with whatever value, null included), it is in neither otherwise, and so
\* it is in the record exactly when it is in the claim bag.
C11_CustomClaimBothOrNeither ==
    \A h \in Invocations :
        (pc[h] = "Done" /\ now = 2) =>
            /\ (CustomClaimConfigured /\ CustomClaimPresent(h))
               => (InRecord(h) /\ InClaimBag(h))
            /\ ~ (CustomClaimConfigured /\ CustomClaimPresent(h))
               => (~ InRecord(h) /\ ~ InClaimBag(h))
            /\ InRecord(h) <=> InClaimBag(h)

\* The error kinds of the handler with their statuses.
ErrorKinds ==
    {<<"configuration_error", 500>>, <<"invalid_request", 400>>,
     <<"token_error", 500>>, <<"token_exchange_failed", 500>>,
     <<"invalid_token", 401>>, <<"internal_error", 500>>}

\* r is a 200 with customToken and uid, or an error of one of the kinds.
Classified(r) ==
    \/ DOMAIN r = {"status", "customToken", "uid"} /\ r.status = 200
    \/ DOMAIN r = {"status", "error", "message"} /\ <<r.error, r.status>> \in ErrorKinds

Stages ==
    {"ConfigCheck", "ParseRequest", "Exchange", "Verify", "Sync", "Mint", "Respond"}

\* Whatever the collaborator of the current stage does, the stage completes.
StageTotal(h) ==
    /\ pc[h] = "ConfigCheck" => ENABLED ConfigCheck(h)
    /\ pc[h] = "ParseRequest" => ENABLED ParseRequest(h)
    /\ pc[h] = "Exchange" => \A out \in ExchangeOutcomes : ENABLED Exchange(h, out)
    /\ pc[h] = "Verify" => \A jwks \in {"ok", "unreachable"} : ENABLED Verify(h, jwks)
    /\ pc[h] = "Sync" => \A write \in {"ok", "error"} : ENABLED Sync(h, write)
    /\ pc[h] = "Mint" => \A sign \in {"ok", "error"} : ENABLED Mint(h, sign)
    /\ pc[h] = "Respond" => ENABLED Respond(h)

C12_OneClassifiedResponse(h) ==
    /\ pc[h] \in Stages => response[h] = NoResponse /\ StageTotal(h)
    /\ pc[h] \in {"Done", "Error"} => Classified(response[h])
    /\ pc[h] = "Done" <=> response[h].status = 200

C12_ResponseStep(h) ==
    /\ response'[h] # response[h]
       => \/ response[h] = NoResponse /\ pc[h] \in Stages /\ pc'[h] \in {"Done", "Error"}
          \/ pc'[h] = "Closed"
    /\ (pc[h] \in Stages /\ pc'[h] \notin Stages) => Classified(response'[h])

\* C12: for every request and every outcome of the exchange, the JWKS
\* fetch, the verification, the store write and the signing, every stage
\* completes, the handler builds exactly one response, at the step that
\* ends it, and that response is a 200 with customToken and uid or an error
\* whose (kind, status) is one of the six listed pairs.
C12_TotalClassification ==
    /\ [](\A h \in Invocations : C12_OneClassifiedResponse(h))
    /\ [][\A h \in Invocations : C12_ResponseStep(h)]_vars

\* C12 witness: the last collaborator, the signing, failed and the request
\* was answered 500/internal_error.
C12_Witness ==
    \E h \in Invocations :
        /\ pc[h] = "Error"
        /\ calls[h].sign = 1
        /\ Classified(response[h])
        /\ IsError(response[h], "internal_error", 500)

\* C13: any two requests answered 401 have received the same response
\* (status, error kind and message), whatever check their tokens failed.
C13_UndifferentiatedResponse ==
    \A g, h \in Invocations :
        (response[g].status = 401 /\ response[h].status = 401)
        => response[g] = response[h]

\* The stage that follows a stage that succeeded.
StageAfter(p) ==
    CASE p = "ConfigCheck" -> "ParseRequest"
      [] p = "ParseRequest" -> "Exchange"
      [] p = "Exchange" -> "Verify"
      [] p = "Verify" -> "Sync"
      [] p = "Sync" -> "Mint"
      [] p = "Mint" -> "Respond"
      [] p = "Respond" -> "Done"

\* The stage that performs an outbound operation.
StageOf(op) ==
    CASE op = "post" -> "Exchange"
      [] op = "jwks" -> "Verify"
      [] op = "store" -> "Sync"
      [] op = "sign" -> "Mint"

C14_EarlierStagesSucceeded(h) ==
    /\ \A op \in DOMAIN NoCalls : calls[h][op] <= 1
    /\ pc[h] \in {"ParseRequest", "Exchange", "Verify", "Sync", "Mint", "Respond", "Done"}
       => ~ AnyRequiredEmpty
    /\ pc[h] \in {"Exchange", "Verify", "Sync", "Mint", "Respond", "Done"}
       => request_json[h].t = "obj" /\ ~ IncompleteObject(request_json[h])
    /\ pc[h] \in {"Verify", "Sync", "Mint", "Respond", "Done"}
       => /\ calls[h].post = 1
          /\ token_response[h] # None
          /\ ~ LacksNonEmpty(token_response[h].d, "id_token")
    /\ pc[h] \in {"Sync", "Mint", "Respond", "Done"} => Verified(h)
    /\ pc[h] \in {"Mint", "Respond", "Done"} => calls[h].store = 1 /\ uid[h] # None
    /\ pc[h] \in {"Respond", "Done"} => calls[h].sign = 1 /\ custom_token[h] # None

C14_StageStep(h) ==
    /\ pc'[h] # pc[h]
       => \/ pc[h] = "Idle" /\ pc'[h] = "ConfigCheck"
          \/ pc[h] \in Stages /\ pc'[h] = StageAfter(pc[h])
          \/ pc[h] \in Stages \ {"Respond"} /\ pc'[h] = "Error"
          \/ pc[h] \in {"Done", "Error"} /\ pc'[h] = "Closed"
    /\ \A op \in DOMAIN NoCalls :
          calls'[h][op] # calls[h][op]
          => \/ pc'[h] = "Closed"
             \/ /\ pc[h] = StageOf(op)
                /\ pc'[h] # pc[h]
                /\ calls[h][op] = 0
                /\ calls'[h][op] = 1

\* C14: within a request a stage is entered only from the stage before it,
\* once, when every earlier stage has succeeded; Error is entered from any
\* stage before Respond; nothing follows Respond or Error but the end of
\* the invocation; and the POST, the verification with its JWKS fetch, the
\* store write and the signing are each invoked at most once, in their own
\* stage, and never again after a failure.
C14_StrictOrderNoRetry ==
    /\ [](\A h \in Invocations : C14_EarlierStagesSucceeded(h))
    /\ [][\A h \in Invocations : C14_StageStep(h)]_vars

\* C14 witness: a request has run all stages, each operation once.
C14_Witness ==
    \E h \in Invocations :
        /\ pc[h] = "Done"
        /\ calls[h] = [post |-> 1, jwks |-> 1, store |-> 1, sign |-> 1]

C15_AbortedInSync(h) ==
    (Verified(h) /\ ~ HasSubject(h) /\ pc[h] # "Sync")
    => /\ pc[h] = "Error"
       /\ IsError(response[h], "internal_error", 500)
       /\ calls[h].store = 0
       /\ calls[h].sign = 0
       /\ uid[h] = None
       /\ custom_token[h] = None

C15_SyncStep(h) ==
    (pc[h] = "Sync" /\ ~ HasSubject(h) /\ pc'[h] # "Sync")
    => /\ pc'[h] = "Error"
       /\ store' = store

\* C15: a request whose verified claims have no subject, or an empty one,
\* leaves the Sync stage to Error with 500/internal_error; that step does
\* not change the store (no record under any key, no default identifier),
\* and the request never calls the store or the signing capability and
\* holds no uid and no credential.
C15_NoSubjectIsFatal ==
    /\ [](\A h \in Invocations : C15_AbortedInSync(h))
    /\ [][\A h \in Invocations : C15_SyncStep(h)]_vars

\* C15 witness: a token with an empty subject was verified and the request
\* ended in Error.
C15_Witness ==
    \E h \in Invocations :
        /\ pc[h] = "Error"
        /\ Verified(h)
        /\ DictGet(decoded_claims[h].d, "sub") = Str(<<>>)
        /\ IsError(response[h], "internal_error", 500)

C16_RecordRemains(h) ==
    (pc[h] = "Error" /\ calls[h].sign = 1)
    => /\ IsError(response[h], "internal_error", 500)
       /\ DOMAIN response[h] = {"status", "error", "message"}
       /\ custom_token[h] = None
       /\ uid[h].s \in DOMAIN store
       /\ store[uid[h].s]["sub"] = Str(SubjectOf(h))
       /\ store[uid[h].s]["updated_at"] = Num(now - 1)

C16_NoRollbackStep(h) ==
    (pc[h] \in {"Mint", "Error"} /\ pc'[h] # pc[h]) => store' = store

\* C16: when Sync has written the user record and Mint then fails, the
\* request ends with 500/internal_error and a response without credential,
\* the record is still in the store as Sync wrote it, and neither the
\* failing Mint step nor any later step of the request changes the store.
C16_NoRollback ==
    /\ [](\A h \in Invocations : C16_RecordRemains(h))
    /\ [][\A h \in Invocations : C16_NoRollbackStep(h)]_vars

\* C16 witness: the signing failed after the record of "a" was written.
C16_Witness ==
    \E h \in Invocations :
        /\ pc[h] = "Error"
        /\ calls[h].sign = 1
        /\ uid[h] = Str(<<"a">>)
        /\ <<"a">> \in DOMAIN store

\* Invocations g and h have both upserted, for the same subject.
SameSubjectUpserted(g, h) ==
    /\ g # h
    /\ uid[g] # None
    /\ uid[h] # None
    /\ SubjectOf(g) = SubjectOf(h)

C17_OneMergedRecord(g, h) ==
    SameSubjectUpserted(g, h) =>
        LET u == uid[g].s
            cg == decoded_claims[g].d
            ch == decoded_claims[h].d
        IN /\ uid[h] = uid[g]
           /\ u \in DOMAIN store
           /\ \A d \in DOMAIN store : store[d]["sub"] = Str(SubjectOf(g)) => d = u
           /\ \A k \in StoredKeys :
                 CASE Supplied(cg, k) /\ Supplied(ch, k) ->
                        k \in DOMAIN store[u] /\ store[u][k] \in {cg[k], ch[k]}
                   [] Supplied(cg, k) /\ ~ Supplied(ch, k) ->
                        k \in DOMAIN store[u] /\ store[u][k] = cg[k]
                   [] ~ Supplied(cg, k) /\ Supplied(ch, k) ->
                        k \in DOMAIN store[u] /\ store[u][k] = ch[k]
                   [] OTHER -> k \notin DOMAIN store[u]

C17_NotFailedByOthers(h) ==
    /\ (pc[h] = "Sync" /\ HasSubject(h)) => ENABLED Sync(h, "ok")
    /\ (pc[h] = "Error" /\ Verified(h) /\ HasSubject(h))
       => (StoreFailed(h) \/ SignFailed(h))

C17_LastWriteWins(h) ==
    (pc[h] = "Sync" /\ pc'[h] = "Mint") =>
        LET c == decoded_claims[h].d
            u == uid'[h].s
        IN /\ \A d \in DOMAIN store \ {u} : d \in DOMAIN store' /\ store'[d] = store[d]
           /\ \A k \in StoredKeys :
                 /\ Supplied(c, k) => k \in DOMAIN store'[u] /\ store'[u][k] = c[k]
                 /\ (~ Supplied(c, k) /\ u \in DOMAIN store /\ k \in DOMAIN store[u])
                    => k \in DOMAIN store'[u] /\ store'[u][k] = store[u][k]

\* C17: with requests in flight at the same time, in every interleaving,
\* two requests that have upserted for the same subject leave one record,
\* under the one derived identifier, in which every field one of them
\* supplied is present, with the value of the only supplier or of one of
\* the two suppliers; every upsert step sets the fields it supplies and
\* keeps the others (so the last supplier wins); the write of a request is
\* accepted whatever the other requests have done, and a verified request
\* fails only by a failure of its own store write or signing.
C17_ConcurrentUpsert ==
    /\ [](\A g, h \in Invocations : C17_OneMergedRecord(g, h))
    /\ [](\A h \in Invocations : C17_NotFailedByOthers(h))
    /\ [][\A h \in Invocations : C17_LastWriteWins(h)]_vars

\* C17 witness: two requests for subject "b|a" are both answered and not yet
\* closed; one supplied only the email, the other only the name, in
\* different versions, and the record holds both.
C17_Witness ==
    /\ pc = [h \in Invocations |-> "Done"]
    /\ decoded_claims["r1"].d = DictUpdate(SubPart(<<"b", "|", "a">>), ProfilePart({"email"}, "v1"))
    /\ decoded_claims["r2"].d = DictUpdate(SubPart(<<"b", "|", "a">>), ProfilePart({"name"}, "v2"))
    /\ DOMAIN store = {<<"a">>}
    /\ store[<<"a">>]["email"] = Str(<<"email", "v1">>)
    /\ store[<<"a">>]["name"] = Str(<<"name", "v2">>)

\* C18: every request that has been handed to the handler is eventually
\* answered: it reaches Respond (and its 200) or Error.
C18_EventuallyAnswered ==
    \A h \in Invocations : (pc[h] = "ConfigCheck") ~> (pc[h] \in {"Done", "Error"})

C19_SeparateRecordStep(h) ==
    (pc[h] = "Sync" /\ pc'[h] = "Mint" /\ uid'[h].s \in DOMAIN store)
    => store[uid'[h].s]["sub"] = decoded_claims[h].d["sub"]

\* C19: subjects that differ derive identifiers that differ: an upsert
\* never lands in a record that holds another subject, and a credential is
\* minted for a uid only for the subject whose record that uid names.
C19_SubjectsKeptApart ==
    /\ [][\A h \in Invocations : C19_SeparateRecordStep(h)]_vars
    /\ [](\A h \in Invocations :
            custom_token[h] # None
            => store[custom_token[h].uid.s]["sub"] = decoded_claims[h].d["sub"])

C20_DerivationStep(h) ==
    (pc[h] = "Sync" /\ HasSubject(h) /\ pc'[h] # "Sync")
    => Len(DeriveUid(SubjectOf(h))) > 0

\* C20: for a verified subject that is not empty, the identifier Sync
\* derives, which is the key it asks the store to write and the uid it
\* hands to Mint, is not empty, and a 200 response carries a uid that is
\* not empty.
C20_NonEmptyIdentifier ==
    /\ [][\A h \in Invocations : C20_DerivationStep(h)]_vars
    /\ [](\A h \in Invocations : pc[h] = "Done" => Len(response[h].uid.s) > 0)

====
